---- MODULE Spec2Model ----
(***************************************************************************)
(* django-syzygy: the cache backed quorum (syzygy/quorum/backends/cache.py), *)
(* the migrate command that drives it                                      *)
(* (syzygy/management/commands/migrate.py) and the stages of operations,   *)
(* migrations and plans (syzygy/plan.py).                                  *)
(*                                                                         *)
(* Every call to the shared cache is one atomic step; a join, a poll and a *)
(* sever are sequences of such steps and interleave freely between the     *)
(* parties.  Key expiry (the 3600 s timeout of the keys) is not modelled.  *)
(***************************************************************************)
EXTENDS Integers, Sequences, FiniteSets, TLC

VARIABLES
    cache,      \* the shared cache: key -> Some(integer), or None when the key is absent
    quorum,     \* the `quorum` argument every party passes
    rounds,     \* test harness: the kinds of the rounds started so far, last = current
                \* (OverlapSpec: per party, the number of the round it is in)
    phase,      \* per party: the call it is in, or how it ended
    pc,         \* per party: the cache call it is about to make inside that call
    current,    \* per party: the local `current` of poll, between its get and its end
    joinRet,    \* per party and namespace: what join returned
    pollRet,    \* per party and namespace: whether a poll returned True
    exc,        \* per party: the exception it ended with
    applied,    \* per party: what became of its migrate.Command.handle call
    plan,       \* migrate command: the plan self._get_plan() gives every invocation
    call,       \* syzygy/plan.py: the function called and its arguments
    result      \* syzygy/plan.py: what the call returned or raised

vars == <<cache, quorum, rounds, phase, pc, current, joinRet, pollRet, exc, applied,
          plan, call, result>>

\* Bounds of the model.
MaxQuorum == 4
MaxRounds == 2

Procs == 1..MaxQuorum
Parties == 1..quorum

\* A cache value is None (a missing key, what cache.get returns for it) or
\* Some(v) for the integer v.
None == <<>>
Some(v) == <<v>>
Val(x) == x[1]

Namespaces == {"ns", "pre", "post"}

\* CacheQuorum._get_namespace_keys: (namespace_key, clear_namespace_key).
_get_namespace_keys(namespace) == << <<namespace>>, <<namespace, "clear">> >>
namespace_key(namespace) == _get_namespace_keys(namespace)[1]
clear_namespace_key(namespace) == _get_namespace_keys(namespace)[2]

Keys == UNION {{namespace_key(n), clear_namespace_key(n)} : n \in Namespaces}

(***************************************************************************)
(* The cache calls CacheQuorum makes (django.core.cache, integer values).  *)
(***************************************************************************)
\* cache.set in the place of cache.add: overwrites a present key.
CacheSet(c, key, value) == [c EXCEPT ![key] = Some(value)]

\* cache.add: sets the key only when it is absent.
CacheAdd(c, key, value) == IF c[key] = None THEN [c EXCEPT ![key] = Some(value)] ELSE c

\* cache.incr / cache.decr raise ValueError on a missing key.
CacheMissing(c, key) == c[key] = None

\* cache.incr(key, delta) on a present key.
CacheIncr(c, key, delta) == [c EXCEPT ![key] = Some(Val(@) + delta)]

\* cache.decr(key, delta) on a present key: incr(key, -delta).
CacheDecr(c, key, delta) == CacheIncr(c, key, -delta)

\* cache.get(key): the value, or None.
CacheGet(c, key) == c[key]

\* cache.delete(key), one key of delete_many.
CacheDelete(c, key) == [c EXCEPT ![key] = None]

(***************************************************************************)
(* CacheQuorum's own decisions.                                            *)
(***************************************************************************)
\* The clear counter created with quorum instead of quorum - 1.
ClearSeedQuorum(q) == q

\* join: the value the clear counter is created with.
ClearSeed(q) == q - 1

\* join comparing one too low: `current >= quorum - 1`.
JoinResultAtLeastPrevious(cur, q) == cur >= q - 1

\* join: `current == quorum`.
JoinResult(cur, q) == cur = q

\* sever counting as one more join: the count goes up by one.
SeverDeltaAsJoin(q) == -1

\* sever decrementing by the default delta of 1 instead of quorum.
SeverDeltaOne(q) == 1

\* sever: the amount the count is decremented by.
SeverDelta(q) == q

\* poll comparing one too low: `current >= quorum - 1`.
PollBranchAtLeastPrevious(cur, q) ==
    IF cur # None /\ Val(cur) >= q - 1 THEN "attained"
    ELSE IF cur = None THEN "TypeError"
    ELSE IF Val(cur) <= 0 THEN "disolved"
    ELSE "pending"

\* poll comparing with `current > quorum`.
PollBranchExceeds(cur, q) ==
    IF cur # None /\ Val(cur) > q THEN "attained"
    ELSE IF cur = None THEN "TypeError"
    ELSE IF Val(cur) <= 0 THEN "disolved"
    ELSE "pending"

\* poll: the branch taken for the value cache.get returned.  None == quorum is
\* False, and None <= 0 raises TypeError.
PollBranch(cur, q) ==
    IF cur = Some(q) THEN "attained"
    ELSE IF cur = None THEN "TypeError"
    ELSE IF Val(cur) <= 0 THEN "disolved"
    ELSE "pending"

(***************************************************************************)
(* The callers: the test harness of tests/test_quorum.py and the migrate   *)
(* command.                                                                *)
(***************************************************************************)
HarnessPhases == {"join", "poll"}
DriverPhases == {"enter", "apply_skip", "pre_join", "pre_poll", "apply", "post_join", "post_poll"}
EndPhases == {"done", "raised"}

\* The namespace of the call a party is in.
NamespaceOf(ph) ==
    IF ph \in {"pre_join", "pre_poll"} THEN "pre"
    ELSE IF ph \in {"post_join", "post_poll"} THEN "post"
    ELSE "ns"

\* BaseQuorumTestMixin.attain_quorum: join, then poll until it returns True.
\* <<phase, pc>> after the call of phase ph returned ret.
attain_quorum(ph, ret) ==
    IF ph = "join" /\ ret = FALSE THEN <<"poll", "get">>
    ELSE IF ph = "poll" /\ ret = FALSE THEN <<"poll", "get">>
    ELSE <<"done", "end">>

\* _handle_quorum with the test of the empty plan left out.
SkipQuorumIgnoresPlan(q, pl) == q < 2

\* Command._handle_quorum: `if quorum < 2: yield True; return` and
\* `if not plan: yield True; return`.
SkipQuorum(q, pl) == q < 2 \/ pl = <<>>

\* Command._handle_quorum: without a quorum to reach it yields True and returns
\* ("apply_skip"); otherwise the pre-migrate join decides who applies and both
\* kinds of invocation then join the post-migrate namespace and poll it.
_handle_quorum(ph, ret) ==
    IF ph = "enter" THEN
        (IF SkipQuorum(quorum, plan) THEN <<"apply_skip", "body">> ELSE <<"pre_join", "add_count">>)
    ELSE IF ph = "apply_skip" THEN <<"done", "end">>
    ELSE IF ph = "pre_join" THEN (IF ret THEN <<"apply", "body">> ELSE <<"pre_poll", "get">>)
    ELSE IF ph = "pre_poll" THEN (IF ret THEN <<"post_join", "add_count">> ELSE <<"pre_poll", "get">>)
    ELSE IF ph = "apply" THEN <<"post_join", "add_count">>
    ELSE IF ph = "post_join" THEN <<"post_poll", "get">>
    ELSE IF ph = "post_poll" THEN (IF ret THEN <<"done", "end">> ELSE <<"post_poll", "get">>)
    ELSE <<"done", "end">>

\* Where the caller of a returning call goes on; a party that only severs is done.
Continue(ph, ret) ==
    IF ph \in HarnessPhases THEN attain_quorum(ph, ret)
    ELSE IF ph \in DriverPhases THEN _handle_quorum(ph, ret)
    ELSE <<"done", "end">>

\* The call of party p returns ret to its caller.
Return(p, ret) ==
    /\ phase' = [phase EXCEPT ![p] = Continue(phase[p], ret)[1]]
    /\ pc' = [pc EXCEPT ![p] = Continue(phase[p], ret)[2]]

\* The call of party p raises e, which nothing catches.
Raise(p, e) ==
    /\ phase' = [phase EXCEPT ![p] = "raised"]
    /\ pc' = [pc EXCEPT ![p] = "end"]
    /\ exc' = [exc EXCEPT ![p] = e]

(***************************************************************************)
(* CacheQuorum.join                                                        *)
(***************************************************************************)
\* cache.add(namespace_key, 0)
JoinAddCount(p) ==
    /\ pc[p] = "add_count"
    /\ cache' = CacheAdd(cache, namespace_key(NamespaceOf(phase[p])), 0)
    /\ pc' = [pc EXCEPT ![p] = "add_clear"]
    /\ UNCHANGED <<plan, call, result, quorum, rounds, phase, current, joinRet, pollRet, exc, applied>>

\* cache.add(clear_namespace_key, quorum - 1)
JoinAddClear(p) ==
    /\ pc[p] = "add_clear"
    /\ cache' = CacheAdd(cache, clear_namespace_key(NamespaceOf(phase[p])), ClearSeed(quorum))
    /\ pc' = [pc EXCEPT ![p] = "incr"]
    /\ UNCHANGED <<plan, call, result, quorum, rounds, phase, current, joinRet, pollRet, exc, applied>>

\* current = cache.incr(namespace_key); return current == quorum
JoinIncr(p) ==
    LET ns == NamespaceOf(phase[p])
        key == namespace_key(ns)
    IN  /\ pc[p] = "incr"
        /\ IF CacheMissing(cache, key)
           THEN /\ Raise(p, "ValueError")
                /\ UNCHANGED <<cache, joinRet>>
           ELSE /\ cache' = CacheIncr(cache, key, 1)
                /\ joinRet' = [joinRet EXCEPT ![p][ns] =
                                   IF JoinResult(Val(CacheGet(cache', key)), quorum) THEN "true" ELSE "false"]
                /\ Return(p, JoinResult(Val(CacheGet(cache', key)), quorum))
                /\ UNCHANGED exc
        /\ UNCHANGED <<plan, call, result, quorum, rounds, current, pollRet, applied>>

(***************************************************************************)
(* CacheQuorum.sever                                                       *)
(***************************************************************************)
\* cache.add(namespace_key, 0)
SeverAdd(p) ==
    /\ pc[p] = "s_add"
    /\ cache' = CacheAdd(cache, namespace_key(NamespaceOf(phase[p])), 0)
    /\ pc' = [pc EXCEPT ![p] = "s_decr"]
    /\ UNCHANGED <<plan, call, result, quorum, rounds, phase, current, joinRet, pollRet, exc, applied>>

\* cache.decr(namespace_key, quorum)
SeverDecr(p) ==
    LET key == namespace_key(NamespaceOf(phase[p]))
    IN  /\ pc[p] = "s_decr"
        /\ IF CacheMissing(cache, key)
           THEN /\ Raise(p, "ValueError")
                /\ UNCHANGED cache
           ELSE /\ cache' = CacheDecr(cache, key, SeverDelta(quorum))
                /\ Return(p, FALSE)
                /\ UNCHANGED exc
        /\ UNCHANGED <<plan, call, result, quorum, rounds, current, joinRet, pollRet, applied>>

(***************************************************************************)
(* CacheQuorum.poll and CacheQuorum._clear                                 *)
(***************************************************************************)
\* poll ends on the branch its `current` chose: True, or QuorumDisolved.
PollEnd(p) ==
    IF PollBranch(current[p], quorum) = "attained"
    THEN /\ pollRet' = [pollRet EXCEPT ![p][NamespaceOf(phase[p])] = "true"]
         /\ Return(p, TRUE)
         /\ UNCHANGED exc
    ELSE /\ Raise(p, "QuorumDisolved")
         /\ UNCHANGED pollRet

\* current = cache.get(namespace_key), and the branch on it.  A poll that
\* returns False leaves its caller's loop where it is.
PollGet(p) ==
    LET key == namespace_key(NamespaceOf(phase[p]))
        branch == PollBranch(CacheGet(cache, key), quorum)
    IN  /\ pc[p] = "get"
        /\ IF branch \in {"attained", "disolved"}
           THEN /\ current' = [current EXCEPT ![p] = CacheGet(cache, key)]
                /\ pc' = [pc EXCEPT ![p] = "decr"]
                /\ UNCHANGED <<phase, exc>>
           ELSE IF branch = "TypeError"
           THEN /\ Raise(p, "TypeError")
                /\ UNCHANGED current
           ELSE /\ Return(p, FALSE)
                /\ UNCHANGED <<current, exc>>
        /\ UNCHANGED <<plan, call, result, cache, quorum, rounds, joinRet, pollRet, applied>>

\* cache.decr(clear_namespace_key) == 0
PollDecr(p) ==
    LET key == clear_namespace_key(NamespaceOf(phase[p]))
    IN  /\ pc[p] = "decr"
        /\ IF CacheMissing(cache, key)
           THEN /\ Raise(p, "ValueError")
                /\ current' = [current EXCEPT ![p] = None]
                /\ UNCHANGED <<cache, pollRet>>
           ELSE /\ cache' = CacheDecr(cache, key, 1)
                /\ IF Val(CacheGet(cache', key)) = 0
                   THEN /\ pc' = [pc EXCEPT ![p] = "del_count"]
                        /\ UNCHANGED <<phase, current, pollRet, exc>>
                   ELSE /\ PollEnd(p)
                        /\ current' = [current EXCEPT ![p] = None]
        /\ UNCHANGED <<plan, call, result, quorum, rounds, joinRet, applied>>

\* _clear: cache.delete_many deletes the keys one after the other; first the count
_clearCount(p) ==
    /\ pc[p] = "del_count"
    /\ cache' = CacheDelete(cache, namespace_key(NamespaceOf(phase[p])))
    /\ pc' = [pc EXCEPT ![p] = "del_clear"]
    /\ UNCHANGED <<plan, call, result, quorum, rounds, phase, current, joinRet, pollRet, exc, applied>>

\* _clear: then the clear counter; poll then returns True or raises QuorumDisolved
_clearClear(p) ==
    /\ pc[p] = "del_clear"
    /\ cache' = CacheDelete(cache, clear_namespace_key(NamespaceOf(phase[p])))
    /\ PollEnd(p)
    /\ current' = [current EXCEPT ![p] = None]
    /\ UNCHANGED <<plan, call, result, quorum, rounds, joinRet, applied>>

\* The steps of join, sever and poll of party p.
QuorumStep(p) ==
    \/ JoinAddCount(p)
    \/ JoinAddClear(p)
    \/ JoinIncr(p)
    \/ PollGet(p)
    \/ PollDecr(p)
    \/ _clearCount(p)
    \/ _clearClear(p)

(***************************************************************************)
(* The test harness: rounds on one namespace.  An "attain" round is        *)
(* test_attainment (quorum parties run attain_quorum), a "sever" round is  *)
(* test_disolution (quorum - 1 parties run attain_quorum, one severs).     *)
(***************************************************************************)
Kinds == {"attain", "sever"}

kind == rounds[Len(rounds)]

\* Where each party starts a round of kind k: the last party is the severer.
StartPhase(k, q) ==
    [p \in Procs |-> IF p > q THEN "off"
                     ELSE IF k = "sever" /\ p = q THEN "sever" ELSE "join"]

StartPc(k, q) ==
    [p \in Procs |-> IF p > q THEN "end"
                     ELSE IF k = "sever" /\ p = q THEN "s_add" ELSE "add_count"]

NoRet == [p \in Procs |-> [n \in Namespaces |-> "none"]]

\* No function of syzygy/plan.py is being called, and none has returned.
NoCall == [fn |-> "none"]
NoResult == [exc |-> "pending"]

Init ==
    /\ quorum \in 2..MaxQuorum
    /\ plan = <<>>
    /\ call = NoCall
    /\ result = NoResult
    /\ rounds \in {<<k>> : k \in Kinds}
    /\ cache = [k \in Keys |-> None]
    /\ phase = StartPhase(rounds[1], quorum)
    /\ pc = StartPc(rounds[1], quorum)
    /\ current = [p \in Procs |-> None]
    /\ joinRet = NoRet
    /\ pollRet = NoRet
    /\ exc = [p \in Procs |-> "none"]
    /\ applied = [p \in Procs |-> "no"]

RoundOver == \A p \in Parties : phase[p] \in EndPhases

\* The same parties run another test on the same namespace.
NextRound ==
    /\ RoundOver
    /\ Len(rounds) < MaxRounds
    /\ \E k \in Kinds :
        /\ rounds' = Append(rounds, k)
        /\ phase' = StartPhase(k, quorum)
        /\ pc' = StartPc(k, quorum)
    /\ joinRet' = NoRet
    /\ pollRet' = NoRet
    /\ exc' = [p \in Procs |-> "none"]
    /\ UNCHANGED <<plan, call, result, cache, quorum, current, applied>>

PartyStep(p) == QuorumStep(p) \/ SeverAdd(p) \/ SeverDecr(p)

Next == (\E p \in Procs : PartyStep(p)) \/ NextRound

Spec == Init /\ [][Next]_vars

\* Every thread of the pool keeps running.
FairSpec == Spec /\ \A p \in Procs : WF_vars(PartyStep(p))

(***************************************************************************)
(* The migrate command: quorum concurrent invocations with the same        *)
(* non-empty plan, hence the same pre- and post-migrate namespaces.        *)
(***************************************************************************)
\* handle: `if proceed: super().handle()` returns; _handle_quorum resumes after
\* its `yield True`.
ApplyOK(p) ==
    /\ phase[p] \in {"apply", "apply_skip"}
    /\ applied' = [applied EXCEPT ![p] = "ok"]
    /\ Return(p, TRUE)
    /\ UNCHANGED <<plan, call, result, cache, quorum, rounds, current, joinRet, pollRet, exc>>

\* handle: super().handle() raises; the exception is thrown into _handle_quorum
\* at its `yield True`, where nothing catches it.
ApplyRaise(p) ==
    /\ phase[p] \in {"apply", "apply_skip"}
    /\ applied' = [applied EXCEPT ![p] = "raised"]
    /\ Raise(p, "TestCrash")
    /\ UNCHANGED <<plan, call, result, cache, quorum, rounds, current, joinRet, pollRet>>

\* A poll loop without the elapsed-time test: `while not poll_quorum(): sleep(1)`.
_poll_until_quorum_forever(p) ==
    /\ FALSE
    /\ UNCHANGED vars

\* _poll_until_quorum: poll returned False and quorum_timeout has elapsed.
_poll_until_quorum_timeout(p) ==
    /\ phase[p] \in {"pre_poll", "post_poll"}
    /\ pc[p] = "get"
    /\ PollBranch(CacheGet(cache, namespace_key(NamespaceOf(phase[p]))), quorum) = "pending"
    /\ Raise(p, "RuntimeError")
    /\ UNCHANGED <<plan, call, result, cache, quorum, rounds, current, joinRet, pollRet, applied>>

\* The plans of the migrate command: nothing to apply, or something.
DriverPlans == {<<>>, <<"0001_initial">>}

\* handle enters _handle_quorum: quorum and plan decide whether a quorum is
\* sought at all.
HandleEnter(p) ==
    /\ phase[p] = "enter"
    /\ Return(p, TRUE)
    /\ UNCHANGED <<plan, call, result, cache, quorum, rounds, current, joinRet, pollRet, exc, applied>>

\* The invocations of `migrate --quorum q`: q of them, one when q asks for none.
Invocations(q) == 1..(IF q < 1 THEN 1 ELSE q)

\* Invocations of quorum q with plan pl, none of which has started.
DriverInit(q, pl) ==
    /\ quorum = q
    /\ plan = pl
    /\ call = NoCall
    /\ result = NoResult
    /\ rounds = <<"migrate">>
    /\ cache = [k \in Keys |-> None]
    /\ phase = [p \in Procs |-> IF p \in Invocations(q) THEN "enter" ELSE "off"]
    /\ pc = [p \in Procs |-> IF p \in Invocations(q) THEN "body" ELSE "end"]
    /\ current = [p \in Procs |-> None]
    /\ joinRet = NoRet
    /\ pollRet = NoRet
    /\ exc = [p \in Procs |-> "none"]
    /\ applied = [p \in Procs |-> "no"]

MigrateInit == \E q \in 2..MaxQuorum : DriverInit(q, <<"0001_initial">>)

InvocationStep(p) ==
    \/ HandleEnter(p)
    \/ QuorumStep(p) \/ ApplyOK(p) \/ ApplyRaise(p) \/ _poll_until_quorum_timeout(p)

MigrateNext == \E p \in Procs : InvocationStep(p)

MigrateSpec == MigrateInit /\ [][MigrateNext]_vars

\* Time passes: the loop of _poll_until_quorum sleeps a second per turn, so the
\* elapsed time exceeds quorum_timeout after finitely many polls that return
\* False.  Nothing is assumed about the other steps of an invocation.
TimedMigrateSpec ==
    MigrateSpec /\ \A p \in Procs : WF_vars(_poll_until_quorum_timeout(p))

(***************************************************************************)
(* Properties of the quorum, checked on the test harness (Spec, FairSpec). *)
(***************************************************************************)
Round == Len(rounds)

JoinReturned == {p \in Parties : joinRet[p]["ns"] # "none"}
JoinedTrue == {p \in Parties : joinRet[p]["ns"] = "true"}
JoinedFalse == {p \in Parties : joinRet[p]["ns"] = "false"}
PolledTrue == {p \in Parties : pollRet[p]["ns"] = "true"}
Disolved == {p \in Parties : exc[p] = "QuorumDisolved"}

NamespaceAbsent(n) ==
    /\ cache[namespace_key(n)] = None
    /\ cache[clear_namespace_key(n)] = None

\* The sever of the current round has decremented the count.
Severed == kind = "sever" /\ phase[quorum] = "done"

\* A round of quorum joins as it goes on a namespace nobody used: no join returns
\* True before the last one, exactly one does once all have returned, a poll
\* returns True only once all have joined, and nothing raises.
AttainsAsFresh ==
    /\ Cardinality(JoinReturned) < quorum => JoinedTrue = {}
    /\ Cardinality(JoinReturned) = quorum =>
          /\ Cardinality(JoinedTrue) = 1
          /\ Cardinality(JoinedFalse) = quorum - 1
    /\ PolledTrue # {} => Cardinality(JoinReturned) = quorum
    /\ PolledTrue \subseteq JoinedFalse
    /\ \A p \in Parties : exc[p] = "none"

\* C1: on a fresh namespace where quorum parties join and nobody severs, at most
\* one join returns True under every interleaving of the cache calls; once all
\* have returned exactly one has returned True and quorum - 1 False, no join
\* raises, and the join that returns True is the one whose increment brings the
\* count to quorum.
C1_UniqueJoinWinner ==
    /\ [](Round = 1 /\ kind = "attain" =>
            /\ Cardinality(JoinedTrue) <= 1
            /\ \A p \in Parties : phase[p] = "raised" => joinRet[p]["ns"] # "none"
            /\ Cardinality(JoinReturned) = quorum =>
                  /\ Cardinality(JoinedTrue) = 1
                  /\ Cardinality(JoinedFalse) = quorum - 1)
    /\ [][\A p \in Procs :
            (Round = 1 /\ kind = "attain" /\ joinRet[p]["ns"] = "none" /\ joinRet'[p]["ns"] = "true")
            => /\ cache[namespace_key("ns")] = Some(quorum - 1)
               /\ cache'[namespace_key("ns")] = Some(quorum)]_vars

C1_Witness ==
    /\ Round = 1 /\ kind = "attain" /\ quorum >= 3
    /\ Cardinality(JoinReturned) = quorum
    /\ joinRet[1]["ns"] = "true"

\* C2: on a fresh namespace where quorum parties join and nobody severs, every
\* party that got False from join and keeps polling eventually gets True from
\* poll, and no party ends with QuorumDisolved or any other error.
C2_AttainmentLive ==
    /\ [](Round = 1 /\ kind = "attain" => \A p \in Parties : exc[p] = "none")
    /\ \A p \in Procs :
          [](Round = 1 /\ kind = "attain" /\ p \in Parties /\ joinRet[p]["ns"] = "false"
               => <>(pollRet[p]["ns"] = "true"))

C2_Witness ==
    /\ Round = 1 /\ kind = "attain" /\ quorum >= 3
    /\ Cardinality(PolledTrue) = quorum - 1
    /\ RoundOver

\* C3: in a round of one sever and at most quorum - 1 joins, once the sever has
\* decremented the count no join and no poll returns True for the rest of the
\* round, wherever the sever fell among the joins.
C3_SeverIrreversible ==
    [][(Severed /\ rounds' = rounds) =>
          \A p \in Procs :
             /\ joinRet'[p]["ns"] = "true" => joinRet[p]["ns"] = "true"
             /\ pollRet'[p]["ns"] = "true" => pollRet[p]["ns"] = "true"]_vars

C3_Witness ==
    /\ Severed /\ quorum >= 3
    /\ \E p \in Parties : exc[p] = "QuorumDisolved"
    /\ \E p \in Parties : phase[p] = "join" /\ pc[p] = "add_count"
    /\ JoinedTrue = {} /\ PolledTrue = {}

\* C4: with quorum - 1 parties that join and then poll, and one party that
\* severs, every one of the joiners eventually gets QuorumDisolved from poll, in
\* any interleaving; nobody gets True or another error, and a finished round
\* counts exactly quorum - 1 QuorumDisolved.
C4_DisolutionLive ==
    /\ [](Round = 1 /\ kind = "sever" =>
            /\ \A p \in Parties : exc[p] \in {"none", "QuorumDisolved"}
            /\ JoinedTrue = {} /\ PolledTrue = {}
            /\ RoundOver => Cardinality(Disolved) = quorum - 1)
    /\ \A p \in Procs :
          [](Round = 1 /\ kind = "sever" /\ p < quorum => <>(exc[p] = "QuorumDisolved"))

C4_Witness ==
    /\ Round = 1 /\ kind = "sever" /\ quorum >= 3
    /\ RoundOver
    /\ Cardinality(Disolved) = quorum - 1

\* Every party of an attain round is through: the joins returned and the
\* parties that got False have seen True from poll.
AttainComplete ==
    /\ kind = "attain"
    /\ Cardinality(JoinReturned) = quorum
    /\ PolledTrue = JoinedFalse

\* C5: once the quorum joins of a round have returned and each party that got
\* False has seen True from poll, the count and the clear counter are absent; and
\* a round of quorum joins that follows such a round goes as on a fresh namespace.
C5_ClearedAfterAttainment ==
    /\ AttainComplete => NamespaceAbsent("ns")
    /\ (Round >= 2 /\ rounds[Round - 1] = "attain" /\ kind = "attain") => AttainsAsFresh

C5_Witness ==
    /\ Round >= 2 /\ rounds[Round - 1] = "attain" /\ quorum >= 3
    /\ AttainComplete

\* Every joiner of a sever round has got QuorumDisolved from poll.
SeverComplete ==
    /\ kind = "sever"
    /\ Disolved = Parties \ {quorum}

\* C6: once each of the quorum - 1 joiners of a severed round has got
\* QuorumDisolved from poll, both counters are absent; and a round of quorum
\* joins that follows such a round goes as on a fresh namespace, with no
\* QuorumDisolved.
C6_ClearedAfterDisolution ==
    /\ SeverComplete => NamespaceAbsent("ns")
    /\ (Round >= 2 /\ rounds[Round - 1] = "sever" /\ kind = "attain") => AttainsAsFresh

C6_Witness ==
    /\ Round >= 2 /\ rounds[Round - 1] = "sever" /\ quorum >= 3
    /\ AttainComplete

(***************************************************************************)
(* Properties of the migrate command, checked on MigrateSpec.              *)
(***************************************************************************)
\* `proceed`, as _handle_quorum yields it: the result of the pre-migrate join.
Proceeds == {p \in Parties : joinRet[p]["pre"] = "true"}
Waits == {p \in Parties : joinRet[p]["pre"] = "false"}
JoinedPre == {p \in Parties : joinRet[p]["pre"] # "none"}
JoinedPost == {p \in Parties : joinRet[p]["post"] # "none"}

\* C7: among quorum >= 2 concurrent invocations with the same plan at most one
\* gets proceed = True, exactly one once all have joined the pre-migrate
\* namespace; an invocation is applying or has applied only if it got
\* proceed = True and all quorum invocations have joined the pre-migrate
\* namespace; an invocation that got proceed = False never applies.
C7_SingleApplier ==
    /\ Cardinality(Proceeds) <= 1
    /\ Cardinality(JoinedPre) = quorum => Cardinality(Proceeds) = 1
    /\ \A p \in Parties :
          (phase[p] = "apply" \/ applied[p] # "no") =>
              /\ p \in Proceeds
              /\ Cardinality(JoinedPre) = quorum
    /\ \A p \in Waits : applied[p] = "no" /\ phase[p] # "apply"

C7_Witness ==
    /\ quorum >= 3
    /\ \E p \in Proceeds : applied[p] = "ok"
    /\ Cardinality(Waits) = quorum - 1

\* C8: with no failure while applying and no timeout, every one of the quorum
\* invocations terminates normally: none ends with an error.
C8_AllTerminateNormally ==
    (\A q \in Parties : exc[q] \notin {"TestCrash", "RuntimeError"})
        => \A p \in Parties : phase[p] # "raised"

\* C9: when the invocation that reached the pre-migrate quorum raises while
\* applying, it has severed the post-migrate namespace when it re-raises, and
\* every other invocation that ends, ends with the CommandError 'Error
\* encountered by remote party while applying migration, aborting.'
C9_FailurePropagates ==
    \A p \in Parties :
        applied[p] = "raised" =>
            /\ cache[namespace_key("post")] # None
            /\ Val(cache[namespace_key("post")]) < 0
            /\ \A q \in Parties \ {p} :
                  phase[q] \in EndPhases => (phase[q] = "raised" /\ exc[q] = "CommandError")

\* C10: an invocation that did not apply returns normally only after the
\* applying one has applied; a poll of the post-migrate namespace returns True
\* only after the applying invocation has joined it, and the applying
\* invocation is in or past that join only after it has applied.
C10_ExitAfterApply ==
    /\ \A q \in Waits : phase[q] = "done" => \E p \in Proceeds : applied[p] = "ok"
    /\ \A q \in Parties : pollRet[q]["post"] = "true" => Proceeds \cap JoinedPost # {}
    /\ \A p \in Proceeds : phase[p] \in {"post_join", "post_poll", "done"} => applied[p] = "ok"

C10_Witness ==
    /\ quorum >= 3
    /\ \E q \in Waits : phase[q] = "done"
    /\ \E p \in Proceeds : phase[p] = "done"

\* The invocations that left the poll loop of the pre-migrate namespace on the
\* timeout.
TimedOutPre ==
    {p \in Waits : exc[p] = "RuntimeError" /\ pollRet[p]["pre"] = "none"}

\* C11: an invocation that got False from the pre-migrate join and whose polls
\* keep returning False ends with RuntimeError once the timeout has elapsed:
\* it leaves the poll loop without a True poll only by that error, it has not
\* applied and never applies, the error is not QuorumDisolved, and as long as
\* the pre-migrate count does not reach quorum the timeout eventually strikes
\* the invocation that is about to poll.
C11_QuorumTimeout ==
    /\ [][\A p \in Procs :
            (phase[p] = "pre_poll" /\ phase'[p] # "pre_poll" /\ pollRet'[p]["pre"] # "true")
            => /\ phase'[p] = "raised"
               /\ exc'[p] = "RuntimeError"
               /\ exc'[p] # "QuorumDisolved"]_vars
    /\ [](\A p \in TimedOutPre :
            /\ applied[p] = "no"
            /\ phase[p] = "raised"
            /\ joinRet[p]["post"] = "none")
    /\ \A p \in Procs :
          []((p \in Waits /\ phase[p] = "pre_poll" /\ pc[p] = "get") =>
               <>(exc[p] = "RuntimeError" \/ cache[namespace_key("pre")] = Some(quorum)))

\* One invocation alone with quorum = 2: the other one never starts.
C11_Witness ==
    /\ quorum = 2
    /\ TimedOutPre = {1}
    /\ phase[2] = "enter"
    /\ cache[namespace_key("pre")] = Some(1)

(***************************************************************************)
(* The entry of _handle_quorum, checked on HandleSpec: any quorum, empty   *)
(* and non-empty plans.                                                    *)
(***************************************************************************)
HandleInit == \E q \in 0..MaxQuorum : \E pl \in DriverPlans : DriverInit(q, pl)

HandleSpec == HandleInit /\ [][MigrateNext]_vars

\* No join, poll or sever has left a trace: both namespaces are absent from the
\* cache and no call of the quorum has returned or raised.
QuorumUntouched ==
    /\ cache = [k \in Keys |-> None]
    /\ joinRet = NoRet
    /\ pollRet = NoRet
    /\ \A p \in Procs : exc[p] \in {"none", "TestCrash"}

\* C12: with quorum < 2, or with quorum >= 2 and an empty plan, _handle_quorum
\* yields proceed = True to every invocation and returns after the body,
\* without a step of join, poll or sever: the cache is left unchanged.
C12_QuorumSkipped ==
    /\ [](quorum < 2 \/ plan = <<>> =>
            /\ QuorumUntouched
            /\ \A p \in Procs : phase[p] \in {"off", "enter", "apply_skip", "done", "raised"})
    /\ [][(quorum < 2 \/ plan = <<>>) =>
            /\ cache' = cache
            /\ \A p \in Procs :
                  /\ (phase[p] = "enter" /\ phase'[p] # "enter") => phase'[p] = "apply_skip"
                  /\ (phase[p] = "apply_skip" /\ phase'[p] # "apply_skip") =>
                         /\ phase'[p] \in EndPhases
                         /\ applied'[p] \in {"ok", "raised"}]_vars

\* Two invocations with quorum = 2 and an empty plan have both applied.
C12_Witness ==
    /\ quorum = 2 /\ plan = <<>>
    /\ applied[1] = "ok" /\ applied[2] = "ok"
    /\ phase[1] = "done" /\ phase[2] = "done"
    /\ cache = [k \in Keys |-> None]

\* One invocation with quorum < 2 and a plan to apply has applied it.
C12_WitnessNoQuorum ==
    /\ quorum < 2 /\ plan # <<>>
    /\ applied[1] = "ok" /\ phase[1] = "done"
    /\ cache = [k \in Keys |-> None]

(***************************************************************************)
(* syzygy/plan.py: stages of operations and of migrations, and the         *)
(* pre-deployment part of a plan.                                          *)
(*                                                                         *)
(* An operation is [kind, stage, reduce]: its class, its `stage` attribute *)
(* (Absent when it has none) and what its reduce() answers when asked      *)
(* about a later operation.  A migration is [app_label, name, stage,       *)
(* operations, dependencies], dependencies being keys <<app_label, name>>. *)
(* conf is [override, fallback], each reduced to the values it holds at    *)
(* the two keys of the migration: [full, app].  A call returns Ok(v) or    *)
(* raises.                                                                 *)
(***************************************************************************)
PRE_DEPLOY == "pre_deploy"
POST_DEPLOY == "post_deploy"
Stages == {PRE_DEPLOY, POST_DEPLOY}

\* Python's None where a Stage may stand, and an attribute that is not there.
NoStage == "None"
Absent == "absent"

Ok(v) == [exc |-> "none", value |-> v]
Raised(e) == [exc |-> e]

\* Stage(value): the member of that value, ValueError when there is none.
Stage(v) == IF v \in Stages THEN Ok(v) ELSE Raised("ValueError")

\* Only DeleteModel is taken for a removal.
IsRemovalModelOnly(operation) == operation.kind = "DeleteModel"

\* isinstance(operation, (DeleteModel, RemoveField))
IsRemoval(operation) == operation.kind \in {"DeleteModel", "RemoveField"}

get_operation_stage(operation) ==
    IF operation.stage # Absent THEN Stage(operation.stage)
    ELSE IF IsRemoval(operation) THEN Ok(POST_DEPLOY)
    ELSE Ok(PRE_DEPLOY)

\* op.reduce(operation, app_label): True, False or a list of operations.
reduce(op, operation) == op.reduce

\* A truthy answer (True or a non-empty list) is taken for an agreement.
CommutesTruthy(post_deploy_operations, operation) ==
    \A j \in 1..Len(post_deploy_operations) :
        reduce(post_deploy_operations[j], operation) # "False"

\* all(op.reduce(operation, app_label) is True for op in post_deploy_operations)
Commutes(post_deploy_operations, operation) ==
    \A j \in 1..Len(post_deploy_operations) :
        reduce(post_deploy_operations[j], operation) = "True"

\* The operation is put in front of its bucket.
Prepend(bucket, operation) == <<operation>> \o bucket

\* stage_operations[stage].append(operation)
Collect(bucket, operation) == Append(bucket, operation)

\* The loop of partition_operations from the i-th operation on.
RECURSIVE partition_from(_, _, _, _)
partition_from(operations, i, pre, post) ==
    IF i > Len(operations) THEN Ok(<<pre, post>>)
    ELSE LET operation == operations[i]
             operation_stage == get_operation_stage(operation)
         IN  IF operation_stage.exc # "none" THEN operation_stage
             ELSE IF operation_stage.value = PRE_DEPLOY /\ post # <<>> THEN
                 IF Commutes(post, operation)
                 THEN partition_from(operations, i + 1, Collect(pre, operation), post)
                 ELSE Raised("AmbiguousStage")
             ELSE IF operation_stage.value = PRE_DEPLOY
                 THEN partition_from(operations, i + 1, Collect(pre, operation), post)
             ELSE partition_from(operations, i + 1, pre, Collect(post, operation))

partition_operations(operations) == partition_from(operations, 1, <<>>, <<>>)

\* The app-wide key is looked up before the key of the migration.
LookupAppFirst(mapping) == IF mapping.app # NoStage THEN mapping.app ELSE mapping.full

\* mapping.get("app_label.name") or mapping.get("app_label")
Lookup(mapping) == IF mapping.full # NoStage THEN mapping.full ELSE mapping.app

_get_migration_stage_override(migration, conf) == Lookup(conf.override)

_get_migration_stage_fallback(migration, conf) == Lookup(conf.fallback)

\* getattr(migration, "stage", None) or _get_migration_stage_override(migration)
_get_defined_stage(migration, conf) ==
    IF migration.stage # NoStage THEN migration.stage
    ELSE _get_migration_stage_override(migration, conf)

\* The loop of get_migration_stage from the i-th operation on.
RECURSIVE infer_stage_from(_, _, _, _)
infer_stage_from(migration, conf, i, stage) ==
    IF i > Len(migration.operations) THEN Ok(stage)
    ELSE LET operation_stage == get_operation_stage(migration.operations[i])
             fallback_stage == _get_migration_stage_fallback(migration, conf)
         IN  IF operation_stage.exc # "none" THEN operation_stage
             ELSE IF stage = NoStage
                 THEN infer_stage_from(migration, conf, i + 1, operation_stage.value)
             ELSE IF operation_stage.value # stage THEN
                 IF fallback_stage # NoStage THEN Ok(fallback_stage)
                 ELSE Raised("AmbiguousStage")
             ELSE infer_stage_from(migration, conf, i + 1, stage)

get_migration_stage(migration, conf) ==
    IF _get_defined_stage(migration, conf) # NoStage
    THEN Ok(_get_defined_stage(migration, conf))
    ELSE infer_stage_from(migration, conf, 1, NoStage)

\* Python's bool, and None, as must_post_deploy_migration returns them.
Bool(b) == IF b THEN "True" ELSE "False"

\* The direction is ignored.
MustPostForward(migration_stage, backward) ==
    IF migration_stage = NoStage THEN "None"
    ELSE Bool(migration_stage # PRE_DEPLOY)

\* must_post_deploy_migration, once the stage is known.
MustPost(migration_stage, backward) ==
    IF migration_stage = NoStage THEN "None"
    ELSE IF migration_stage = PRE_DEPLOY THEN Bool(backward)
    ELSE Bool(~backward)

must_post_deploy_migration(migration, backward, conf) ==
    LET migration_stage == get_migration_stage(migration, conf)
    IN  IF migration_stage.exc # "none" THEN migration_stage
        ELSE Ok(MustPost(migration_stage.value, backward))

\* The key of a migration in post_deploy_plan, and the keys of a sequence of
\* migrations.
Key(migration) == <<migration.app_label, migration.name>>
KeysOf(migrations) == {Key(migrations[j]) : j \in 1..Len(migrations)}

\* Anything but False sends the entry to post-deployment.
IsNotFalse(v) == v # "False"

\* `if must_post_deploy_migration(migration, backward):` None and False fail it.
IsTruthy(v) == v = "True"

\* Only the first dependency of the migration is looked up in post_deploy_plan.
first_dependency_only(migration, post_deploy_plan) ==
    IF Len(migration.dependencies) > 0 /\ migration.dependencies[1] \in KeysOf(post_deploy_plan)
    THEN 1 ELSE 0

\* next((post_deploy_plan[dependency] for dependency in migration.dependencies
\*       if dependency in post_deploy_plan), None): the position in
\* migration.dependencies of the first key post_deploy_plan holds, 0 for None.
first_post_deploy_dep(migration, post_deploy_plan) ==
    LET found == {j \in 1..Len(migration.dependencies) :
                     migration.dependencies[j] \in KeysOf(post_deploy_plan)}
    IN  IF found = {} THEN 0 ELSE CHOOSE j \in found : \A k \in found : j <= k

\* post_deploy_plan[key]: the migration last stored under the key.
post_deploy_plan_get(post_deploy_plan, key) ==
    LET at == {j \in 1..Len(post_deploy_plan) : Key(post_deploy_plan[j]) = key}
    IN  post_deploy_plan[CHOOSE j \in at : \A k \in at : k <= j]

stage_origin(migration, conf) ==
    IF _get_defined_stage(migration, conf) # NoStage THEN "defined" ELSE "inferred"

\* raise AmbiguousPlan(msg): what msg says of the two migrations.
AmbiguousPlan(migration, post_deploy_dep, conf) ==
    [exc |-> "AmbiguousPlan",
     migration |-> Key(migration),
     stage_origin |-> stage_origin(migration, conf),
     post_deploy_dep |-> Key(post_deploy_dep),
     post_stage_origin |-> stage_origin(post_deploy_dep, conf)]

\* The loop of get_pre_deploy_plan from the i-th entry on; post_deploy_plan is
\* kept as the sequence of the migrations stored in it.
RECURSIVE pre_deploy_plan_from(_, _, _, _, _)
pre_deploy_plan_from(entries, conf, i, pre_deploy_plan, post_deploy_plan) ==
    IF i > Len(entries) THEN Ok(pre_deploy_plan)
    ELSE LET migration == entries[i][1]
             backward == entries[i][2]
             must_post == must_post_deploy_migration(migration, backward, conf)
             dep == first_post_deploy_dep(migration, post_deploy_plan)
         IN  IF must_post.exc # "none" THEN must_post
             ELSE IF IsTruthy(must_post.value) THEN
                 pre_deploy_plan_from(entries, conf, i + 1, pre_deploy_plan,
                                      Append(post_deploy_plan, migration))
             ELSE IF dep # 0 THEN
                 AmbiguousPlan(migration,
                               post_deploy_plan_get(post_deploy_plan, migration.dependencies[dep]),
                               conf)
             ELSE pre_deploy_plan_from(entries, conf, i + 1,
                                       Append(pre_deploy_plan, entries[i]), post_deploy_plan)

get_pre_deploy_plan(entries, conf) == pre_deploy_plan_from(entries, conf, 1, <<>>, <<>>)

(***************************************************************************)
(* Calls of the functions of syzygy/plan.py on bounded arguments.          *)
(***************************************************************************)
MaxOps == 3
MaxPlan == 3

SeqsUpTo(S, n) == UNION {[1..k -> S] : k \in 0..n}

\* The migrate command and the quorum stand still while syzygy/plan.py is called.
quorumVars == <<cache, quorum, rounds, phase, pc, current, joinRet, pollRet, exc, applied, plan>>

NoQuorum ==
    /\ quorum = 1
    /\ plan = <<>>
    /\ rounds = <<"plan">>
    /\ cache = [k \in Keys |-> None]
    /\ phase = [p \in Procs |-> "off"]
    /\ pc = [p \in Procs |-> "end"]
    /\ current = [p \in Procs |-> None]
    /\ joinRet = NoRet
    /\ pollRet = NoRet
    /\ exc = [p \in Procs |-> "none"]
    /\ applied = [p \in Procs |-> "no"]

\* Operations: four classes of django.db.migrations, with or without a
\* `stage` attribute ("bogus" is no value of Stage), and the three kinds of
\* answer of reduce().
OperationKinds == {"CreateModel", "AddField", "DeleteModel", "RemoveField"}
Operations ==
    [kind : OperationKinds, stage : {Absent, PRE_DEPLOY, POST_DEPLOY, "bogus"},
     reduce : {"True", "False", "list"}]

\* reduce() is only ever asked of the operations collected for post-deployment:
\* one answer is enough for the others.
PartitionOperations ==
    {o \in Operations : get_operation_stage(o) # Ok(POST_DEPLOY) => o.reduce = "False"}

\* The operations of the migrations whose stage is resolved.
StageOperations ==
    {o \in Operations :
        /\ o.reduce = "False"
        /\ \/ o.stage = Absent /\ o.kind \in {"CreateModel", "DeleteModel"}
           \/ o.stage = POST_DEPLOY /\ o.kind = "CreateModel"
           \/ o.stage = PRE_DEPLOY /\ o.kind = "DeleteModel"}

StageMappings == [full : Stages \cup {NoStage}, app : Stages \cup {NoStage}]
Confs == [override : StageMappings, fallback : StageMappings]
AppConfs == {c \in Confs : c.override.full = NoStage /\ c.fallback.full = NoStage}
NoConf == [override |-> [full |-> NoStage, app |-> NoStage],
           fallback |-> [full |-> NoStage, app |-> NoStage]]

\* The migrations of at most n operations.
Migrations(n) ==
    [app_label : {"app"}, name : {1}, stage : Stages \cup {NoStage},
     operations : SeqsUpTo(StageOperations, n), dependencies : {<<>>}]

DeleteModel == [kind |-> "DeleteModel", stage |-> Absent, reduce |-> "False"]

\* What the migrations of a plan hold: an explicit stage, nothing at all, or an
\* operation the stage is inferred from.
PlanBodies ==
    {[stage |-> PRE_DEPLOY, operations |-> <<>>],
     [stage |-> POST_DEPLOY, operations |-> <<>>],
     [stage |-> NoStage, operations |-> <<>>],
     [stage |-> NoStage, operations |-> <<DeleteModel>>]}

\* The shape of an entry of a plan of n: what its migration holds, which of the
\* other n - 1 migrations of the plan it depends on (0 for none), its direction.
EntryShapes(n) == [body : PlanBodies, dep : 0..(n - 1), backward : BOOLEAN]

\* The dep-th of the migrations other than the i-th.
Other(i, dep) == IF dep < i THEN dep ELSE dep + 1

\* The i-th entry of a plan: migration "app.i" of that shape.
PlanEntry(shape, i) ==
    <<[app_label |-> "app", name |-> i,
       stage |-> shape.body.stage, operations |-> shape.body.operations,
       dependencies |-> IF shape.dep = 0 THEN <<>> ELSE << <<"app", Other(i, shape.dep)>> >>],
      shape.backward>>

PlanOf(shapes) == [i \in 1..Len(shapes) |-> PlanEntry(shapes[i], i)]

\* get_operation_stage and partition_operations.
OperationsInit ==
    /\ NoQuorum
    /\ result = NoResult
    /\ \/ call \in [fn : {"get_operation_stage"}, operation : Operations]
       \/ call \in [fn : {"partition_operations"},
                    operations : SeqsUpTo(PartitionOperations, MaxOps)]

CallGetOperationStage ==
    /\ call.fn = "get_operation_stage"
    /\ result = NoResult
    /\ result' = get_operation_stage(call.operation)
    /\ UNCHANGED <<quorumVars, call>>

CallPartitionOperations ==
    /\ call.fn = "partition_operations"
    /\ result = NoResult
    /\ result' = partition_operations(call.operations)
    /\ UNCHANGED <<quorumVars, call>>

OperationsNext == CallGetOperationStage \/ CallPartitionOperations

OperationsSpec == OperationsInit /\ [][OperationsNext]_vars

\* get_migration_stage and must_post_deploy_migration.
StageInit ==
    /\ NoQuorum
    /\ result = NoResult
    /\ \/ call \in [fn : {"get_migration_stage"}, migration : Migrations(MaxOps), conf : Confs]
       \/ call \in [fn : {"must_post_deploy_migration"}, migration : Migrations(MaxOps),
                    backward : BOOLEAN, conf : AppConfs]

CallGetMigrationStage ==
    /\ call.fn = "get_migration_stage"
    /\ result = NoResult
    /\ result' = get_migration_stage(call.migration, call.conf)
    /\ UNCHANGED <<quorumVars, call>>

CallMustPostDeployMigration ==
    /\ call.fn = "must_post_deploy_migration"
    /\ result = NoResult
    /\ result' = must_post_deploy_migration(call.migration, call.backward, call.conf)
    /\ UNCHANGED <<quorumVars, call>>

StageNext == CallGetMigrationStage \/ CallMustPostDeployMigration

StageSpec == StageInit /\ [][StageNext]_vars

\* get_pre_deploy_plan.
PlanInit ==
    /\ NoQuorum
    /\ result = NoResult
    /\ \E n \in 0..MaxPlan : \E shapes \in [1..n -> EntryShapes(n)] :
          call = [fn |-> "get_pre_deploy_plan", plan |-> PlanOf(shapes), conf |-> NoConf]

CallGetPreDeployPlan ==
    /\ call.fn = "get_pre_deploy_plan"
    /\ result = NoResult
    /\ result' = get_pre_deploy_plan(call.plan, call.conf)
    /\ UNCHANGED <<quorumVars, call>>

PlanNext == CallGetPreDeployPlan

PlanSpec == PlanInit /\ [][PlanNext]_vars

Returned == result.exc = "none"

(***************************************************************************)
(* Properties of get_pre_deploy_plan, checked on PlanSpec.                 *)
(***************************************************************************)
PlanCalled == call.fn = "get_pre_deploy_plan" /\ result.exc # "pending"

\* What must_post_deploy_migration answers for an entry of the plan.
MustPostOf(entry) == must_post_deploy_migration(entry[1], entry[2], call.conf).value

MustPostEntry(entry) == MustPostOf(entry) = "True"
NotMustPostEntry(entry) == MustPostOf(entry) # "True"
MustPreEntry(entry) == MustPostOf(entry) = "False"
NullEntry(entry) == get_migration_stage(entry[1], call.conf) = Ok(NoStage)

Range(seq) == {seq[j] : j \in 1..Len(seq)}

DependsOnPending(entries, i) ==
    \E j \in 1..(i - 1) :
        /\ MustPostEntry(entries[j])
        /\ Key(entries[j][1]) \in Range(entries[i][1].dependencies)

\* C14: on a plan of migrations whose stages all resolve, AmbiguousPlan is
\* raised if and only if some entry that must run pre-deploy depends directly
\* on an entry ahead of it that must post-deploy; the error names both
\* migrations, and nothing is returned.
C14_ConflictExactly ==
    PlanCalled =>
        /\ result.exc = "AmbiguousPlan" <=>
              \E i \in 1..Len(call.plan) :
                  MustPreEntry(call.plan[i]) /\ DependsOnPending(call.plan, i)
        /\ result.exc = "AmbiguousPlan" =>
              /\ \E i \in 1..Len(call.plan) :
                    /\ MustPreEntry(call.plan[i])
                    /\ DependsOnPending(call.plan, i)
                    /\ result.migration = Key(call.plan[i][1])
                    /\ result.post_deploy_dep \in Range(call.plan[i][1].dependencies)
              /\ "value" \notin DOMAIN result

\* C15: an entry whose migration resolves to a null stage is in the trimmed
\* plan whenever there is one, and AmbiguousPlan is never raised because of it,
\* also when it depends directly on a migration pending for post-deploy.
C15_NullStageUnconstrained ==
    PlanCalled =>
        \A i \in 1..Len(call.plan) :
            NullEntry(call.plan[i]) =>
                /\ Returned => call.plan[i] \in Range(result.value)
                /\ result.exc = "AmbiguousPlan" => result.migration # Key(call.plan[i][1])

(***************************************************************************)
(* Properties of get_migration_stage and must_post_deploy_migration,       *)
(* checked on StageSpec.                                                   *)
(***************************************************************************)
MustPostCalled == call.fn = "must_post_deploy_migration" /\ result.exc # "pending"

\* The stage of the migration of the call, as get_migration_stage gives it.
StageOfCall == get_migration_stage(call.migration, call.conf)

\* C16: must_post_deploy_migration(migration, backward) is (stage is
\* POST_DEPLOY) XOR backward when the stage of the migration resolves to a
\* stage, None in both directions when it resolves to None, and raises
\* AmbiguousStage when it does not resolve.
C16_MustPostIsXor ==
    MustPostCalled =>
        /\ StageOfCall.exc = "AmbiguousStage" <=> result.exc = "AmbiguousStage"
        /\ StageOfCall.exc = "none" =>
              /\ Returned
              /\ StageOfCall.value = NoStage => result.value = "None"
              /\ StageOfCall.value \in Stages =>
                    result.value = Bool((StageOfCall.value = POST_DEPLOY) # call.backward)

\* The reversal of a migration whose operations are all pre-deploy must
\* post-deploy.
C16_Witness ==
    /\ MustPostCalled
    /\ call.backward
    /\ call.migration.stage = NoStage /\ call.conf = NoConf
    /\ Len(call.migration.operations) = 2
    /\ StageOfCall = Ok(PRE_DEPLOY)
    /\ result.value = "True"

MigrationStageCalled == call.fn = "get_migration_stage" /\ result.exc # "pending"

\* The stages the operations of the migration of the call classify to.
OperationStages ==
    {get_operation_stage(call.migration.operations[j]).value :
        j \in 1..Len(call.migration.operations)}

\* C17: the explicit stage of the migration wins over any override; an
\* override, under the key 'app_label.name' first and 'app_label' next, wins
\* over the operations; with neither, no operation gives None, operations of one
\* stage give that stage whatever the fallback, and operations of both stages
\* give the fallback (same two keys) when there is one and raise AmbiguousStage
\* when there is none.
C17_StagePrecedence ==
    MigrationStageCalled =>
        LET explicit == call.migration.stage
            override == call.conf.override
            fallback == call.conf.fallback
        IN  /\ explicit # NoStage => Returned /\ result.value = explicit
            /\ (explicit = NoStage /\ override.full # NoStage) =>
                  Returned /\ result.value = override.full
            /\ (explicit = NoStage /\ override.full = NoStage /\ override.app # NoStage) =>
                  Returned /\ result.value = override.app
            /\ (explicit = NoStage /\ override.full = NoStage /\ override.app = NoStage) =>
                  /\ OperationStages = {} => Returned /\ result.value = NoStage
                  /\ \A stage \in Stages :
                        OperationStages = {stage} => Returned /\ result.value = stage
                  /\ (OperationStages = Stages /\ fallback.full # NoStage) =>
                        Returned /\ result.value = fallback.full
                  /\ (OperationStages = Stages /\ fallback.full = NoStage
                         /\ fallback.app # NoStage) =>
                        Returned /\ result.value = fallback.app
                  /\ (OperationStages = Stages /\ fallback.full = NoStage
                         /\ fallback.app = NoStage) =>
                        result.exc = "AmbiguousStage"

\* Operations of both stages, no stage and no override: of the two fallbacks the
\* one of the migration is taken.
C17_Witness ==
    /\ MigrationStageCalled
    /\ call.migration.stage = NoStage
    /\ call.conf.override = NoConf.override
    /\ OperationStages = Stages
    /\ call.conf.fallback = [full |-> POST_DEPLOY, app |-> PRE_DEPLOY]
    /\ result.value = POST_DEPLOY

(***************************************************************************)
(* Properties of get_operation_stage and partition_operations, checked on  *)
(* OperationsSpec.                                                         *)
(***************************************************************************)
OperationStageCalled == call.fn = "get_operation_stage" /\ result.exc # "pending"
PartitionCalled == call.fn = "partition_operations" /\ result.exc # "pending"

ClassifiesPre(operation) == get_operation_stage(operation) = Ok(PRE_DEPLOY)
ClassifiesPost(operation) == get_operation_stage(operation) = Ok(POST_DEPLOY)

\* The positions ahead of i of the operations that classify post-deploy.
PostBefore(operations, i) == {j \in 1..(i - 1) : ClassifiesPost(operations[j])}

\* The i-th operation is a pre-deploy one met after a post-deploy one.
MetAfterPost(operations, i) ==
    ClassifiesPre(operations[i]) /\ PostBefore(operations, i) # {}

\* One of the post-deploy operations ahead of the i-th does not answer True.
Refused(operations, i) ==
    \E j \in PostBefore(operations, i) : operations[j].reduce # "True"

\* C18: a pre-deploy operation met after post-deploy operations goes to the
\* pre-deploy bucket if and only if every one of them answers exactly True to
\* reduce; one False or one list and AmbiguousStage is raised and nothing is
\* returned.
C18_ReorderIffAllReduce ==
    PartitionCalled =>
        LET operations == call.operations
            conflicts == {i \in 1..Len(operations) :
                            MetAfterPost(operations, i) /\ Refused(operations, i)}
            invalid == {i \in 1..Len(operations) :
                          get_operation_stage(operations[i]).exc # "none"}
        IN  /\ Returned =>
                  \A i \in 1..Len(operations) :
                      MetAfterPost(operations, i) =>
                          /\ ~Refused(operations, i)
                          /\ operations[i] \in Range(result.value[1])
            /\ (\E i \in conflicts : \A k \in invalid : i < k) =>
                  result.exc = "AmbiguousStage" /\ "value" \notin DOMAIN result
            /\ result.exc = "AmbiguousStage" => conflicts # {}
            /\ (conflicts = {} /\ invalid = {}) => Returned

\* Two post-deploy operations that both answer True, then a pre-deploy one.
C18_Witness ==
    /\ PartitionCalled /\ Returned
    /\ Len(call.operations) = 3
    /\ ClassifiesPost(call.operations[1]) /\ ClassifiesPost(call.operations[2])
    /\ call.operations[1] # call.operations[2]
    /\ ClassifiesPre(call.operations[3])
    /\ result.value = << <<call.operations[3]>>, <<call.operations[1], call.operations[2]>> >>

\* C19: whenever partition_operations returns (pre, post), pre is the
\* sub-sequence of the operations that classify PRE_DEPLOY and post the
\* sub-sequence of those that classify POST_DEPLOY, so that pre + post has the
\* operations of the input; operations of one stage come back as (input, []) or
\* ([], input); the list passed in is left as it was.
C19_PartitionShape ==
    /\ []((PartitionCalled /\ Returned) =>
            LET operations == call.operations
                pre == result.value[1]
                post == result.value[2]
            IN  /\ pre = SelectSeq(operations, ClassifiesPre)
                /\ post = SelectSeq(operations, ClassifiesPost)
                /\ Len(pre) + Len(post) = Len(operations)
                /\ \A o \in Range(operations) :
                      Cardinality({j \in 1..Len(operations) : operations[j] = o})
                          = Cardinality({j \in 1..Len(pre \o post) : (pre \o post)[j] = o})
                /\ (\A j \in 1..Len(operations) : ClassifiesPre(operations[j])) =>
                      pre = operations /\ post = <<>>
                /\ (\A j \in 1..Len(operations) : ClassifiesPost(operations[j])) =>
                      pre = <<>> /\ post = operations)
    /\ [][call.fn = "partition_operations" => call'.operations = call.operations]_vars

\* A pre-deploy operation, a post-deploy one and another pre-deploy one that is
\* moved ahead of it.
C19_Witness ==
    /\ PartitionCalled /\ Returned
    /\ Len(call.operations) = 3
    /\ ClassifiesPre(call.operations[1])
    /\ ClassifiesPost(call.operations[2])
    /\ ClassifiesPre(call.operations[3])
    /\ call.operations[1] # call.operations[3]
    /\ result.value = << <<call.operations[1], call.operations[3]>>, <<call.operations[2]>> >>

\* C20: an operation with a `stage` attribute classifies to that stage whatever
\* its class, a value that is no stage being an error; without the attribute
\* DeleteModel and RemoveField classify POST_DEPLOY and every other class
\* PRE_DEPLOY.
C20_OperationStage ==
    OperationStageCalled =>
        LET operation == call.operation
        IN  /\ operation.stage \in Stages => Returned /\ result.value = operation.stage
            /\ operation.stage \notin Stages \cup {Absent} => result.exc = "ValueError"
            /\ (operation.stage = Absent /\ operation.kind \in {"DeleteModel", "RemoveField"}) =>
                  Returned /\ result.value = POST_DEPLOY
            /\ (operation.stage = Absent /\ operation.kind \notin {"DeleteModel", "RemoveField"}) =>
                  Returned /\ result.value = PRE_DEPLOY

\* A RemoveField without a `stage` attribute.
C20_Witness ==
    /\ OperationStageCalled
    /\ call.operation.kind = "RemoveField" /\ call.operation.stage = Absent
    /\ result.value = POST_DEPLOY

(***************************************************************************)
(* hash_plan and the namespaces _handle_quorum derives from it.  Strings   *)
(* are sequences of characters; SHA-1 is taken to have no collisions.      *)
(***************************************************************************)
MaxHashPlan == 2

\* str(migration) without the dot between the app label and the name.
str_migration_glued(migration) == migration.app_label \o migration.name

\* str(migration): "app_label.name"
str_migration(migration) == migration.app_label \o <<".">> \o migration.name

\* str(backward)
str_bool(b) == IF b THEN <<"T", "r", "u", "e">> ELSE <<"F", "a", "l", "s", "e">>

\* f"{migration}:{backward}"
format_entry(entry) == str_migration(entry[1]) \o <<":">> \o str_bool(entry[2])

\* ";".join(parts)
RECURSIVE join(_)
join(parts) ==
    IF parts = <<>> THEN <<>>
    ELSE IF Len(parts) = 1 THEN parts[1]
    ELSE parts[1] \o <<";">> \o join(Tail(parts))

\* The string hash_plan hashes.
pre_image(entries) == join([i \in 1..Len(entries) |-> format_entry(entries[i])])

\* hashlib.sha1(...).hexdigest()
sha1(string) == <<"sha1", string>>

hash_plan(entries) == sha1(pre_image(entries))

\* f"pre:{database}:{plan_hash}" and f"post:{database}:{plan_hash}"
pre_namespace(database, plan_hash) == <<"pre", database, plan_hash>>
post_namespace(database, plan_hash) == <<"post", database, plan_hash>>

\* Migrations of two apps whose labels and names are made of the same letters.
HashEntries ==
    {<<[app_label |-> label, name |-> name], backward>> :
        label \in {<<"a">>, <<"a", "b">>}, name \in {<<"b">>, <<"b", "b">>},
        backward \in BOOLEAN}

\* Two invocations of migrate on the same database, each with its plan.
HashInit ==
    /\ NoQuorum
    /\ result = NoResult
    /\ \E n1 \in 0..MaxHashPlan, n2 \in 0..MaxHashPlan :
          \E p1 \in [1..n1 -> HashEntries], p2 \in [1..n2 -> HashEntries] :
             call = [fn |-> "hash_plan", plans |-> <<p1, p2>>, database |-> "default"]

\* Each invocation hashes its plan and names its two namespaces.
CallHashPlan ==
    /\ call.fn = "hash_plan"
    /\ result = NoResult
    /\ result' = Ok([i \in 1..2 |->
                       [plan_hash |-> hash_plan(call.plans[i]),
                        pre_namespace |-> pre_namespace(call.database, hash_plan(call.plans[i])),
                        post_namespace |-> post_namespace(call.database, hash_plan(call.plans[i]))]])
    /\ UNCHANGED <<quorumVars, call>>

HashNext == CallHashPlan

HashSpec == HashInit /\ [][HashNext]_vars

HashCalled == call.fn = "hash_plan" /\ result.exc # "pending"

\* C21: two invocations with the same plan get the same hash and the same two
\* namespaces; two plans that differ in the order of the entries, in an app
\* label, in a name or in a direction are hashed from different strings, and
\* so (SHA-1 collisions apart) get different hashes and namespaces.
C21_HashOfPlan ==
    HashCalled =>
        LET first == result.value[1]
            second == result.value[2]
        IN  /\ call.plans[1] = call.plans[2] => first = second
            /\ call.plans[1] # call.plans[2] =>
                  /\ pre_image(call.plans[1]) # pre_image(call.plans[2])
                  /\ first.plan_hash # second.plan_hash
                  /\ first.pre_namespace # second.pre_namespace
                  /\ first.post_namespace # second.post_namespace
            /\ first.pre_namespace # first.post_namespace

\* The same two entries in the two orders.
C21_Witness ==
    /\ HashCalled
    /\ Len(call.plans[1]) = 2 /\ Len(call.plans[2]) = 2
    /\ call.plans[1][1] # call.plans[1][2]
    /\ call.plans[2] = <<call.plans[1][2], call.plans[1][1]>>
    /\ result.value[1].plan_hash # result.value[2].plan_hash

(***************************************************************************)
(* get_pre_deploy_plan on plans that hold migrations of ambiguous stage.   *)
(***************************************************************************)
\* AmbiguousStage and AmbiguousPlan are two kinds of error, both caught as
\* ValueError by PreDeployMigrationExecutor.migration_plan.
isinstance(e, class) ==
    \/ e = class
    \/ class = "ValueError" /\ e \in {"AmbiguousStage", "AmbiguousPlan"}

CreateModel == [kind |-> "CreateModel", stage |-> Absent, reduce |-> "False"]

\* An explicit stage, or operations of both stages and no stage.
AmbiguousBodies ==
    {[stage |-> PRE_DEPLOY, operations |-> <<>>],
     [stage |-> POST_DEPLOY, operations |-> <<>>],
     [stage |-> NoStage, operations |-> <<CreateModel, DeleteModel>>]}

AmbiguousInit ==
    /\ NoQuorum
    /\ result = NoResult
    /\ \E n \in 0..MaxPlan :
          \E shapes \in [1..n -> [body : AmbiguousBodies, dep : 0..(n - 1), backward : BOOLEAN]] :
             call = [fn |-> "get_pre_deploy_plan", plan |-> PlanOf(shapes), conf |-> NoConf]

AmbiguousSpec == AmbiguousInit /\ [][PlanNext]_vars

\* The stage of the migration of the entry does not resolve.
AmbiguousEntry(entry) == get_migration_stage(entry[1], call.conf).exc = "AmbiguousStage"

\* C22: get_pre_deploy_plan raises AmbiguousPlan when the plan holds a migration
\* of ambiguous stage (operations of both stages, no explicit stage, override
\* or fallback).
C22_AmbiguousStageIsAmbiguousPlan ==
    PlanCalled =>
        ((\E i \in 1..Len(call.plan) : AmbiguousEntry(call.plan[i]))
            => isinstance(result.exc, "AmbiguousPlan"))

(***************************************************************************)
(* The counters of a namespace during a round of the test harness (Spec).  *)
(***************************************************************************)
Count == cache[namespace_key("ns")]
Clear == cache[clear_namespace_key("ns")]

\* The count is present and between 1 and quorum - 1: joins are missing and
\* nobody has severed.
CountPending == Count # None /\ Val(Count) \in 1..(quorum - 1)

\* Party p is in poll, before its cache.get.
AboutToPoll(p) == phase[p] = "poll" /\ pc[p] = "get"

\* The poll of party p goes from its cache.get into one of the two branches that
\* decrement the clear counter, or raises.
LeavesGet(p) == AboutToPoll(p) /\ (pc'[p] # "get" \/ phase'[p] # "poll")

\* C24: a poll made while the count is between 1 and quorum - 1 returns False
\* (its caller stays in the polling loop) and changes neither the count nor the
\* clear counter; the clear counter is decremented only by a poll whose
\* cache.get saw the count at quorum or at or below 0.
C24_PendingPollInert ==
    /\ [][\A p \in Procs :
            (CountPending /\ AboutToPoll(p) /\ rounds' = rounds) =>
                /\ ~LeavesGet(p)
                /\ current'[p] = current[p] /\ pollRet'[p] = pollRet[p] /\ exc'[p] = exc[p]
                /\ (\A o \in Procs \ {p} : pc'[o] = pc[o]) => cache' = cache]_vars
    /\ [][(Clear # None /\ Clear' # None /\ Clear' # Clear) =>
            /\ Val(Clear') = Val(Clear) - 1
            /\ \E p \in Procs :
                  /\ phase[p] = "poll" /\ pc[p] = "decr" /\ pc'[p] # "decr"
                  /\ current[p] # None
                  /\ (current[p] = Some(quorum) \/ Val(current[p]) <= 0)]_vars
    /\ [](\A p \in Procs :
            pc[p] \in {"decr", "del_count", "del_clear"} =>
                (current[p] # None /\ (current[p] = Some(quorum) \/ Val(current[p]) <= 0)))

\* A party polls while another one is still joining and the clear counter
\* holds what the first join created it with.
C24_Witness ==
    /\ quorum >= 3
    /\ CountPending /\ Val(Count) = quorum - 1
    /\ Clear = Some(ClearSeed(quorum))
    /\ Cardinality({p \in Parties : AboutToPoll(p)}) = quorum - 1
    /\ \E o \in Parties : phase[o] = "join" /\ pc[o] = "incr"

\* The parties that are inside _clear.
Clearing == {p \in Parties : pc[p] \in {"del_count", "del_clear"}}

\* C25: in a round of the protocol (quorum joins whose losers poll, or
\* quorum - 1 joins whose parties poll and one sever) the clear counter, while
\* present, is between 0 and quorum - 1 and no decrement takes it below 0; the
\* counters are deleted once per round, by the poll whose decrement returned 0:
\* at most one poll is ever inside _clear, a key goes away only by that poll,
\* a deleted key is not created again in the round, and a finished round has
\* deleted both.
C25_ClearCounterInvariant ==
    /\ [](Clear # None => Val(Clear) \in 0..(quorum - 1))
    /\ [](Cardinality(Clearing) <= 1)
    /\ [](Clearing # {} => (Clear = Some(0) /\ \A p \in Parties \ Clearing : pc[p] # "decr"))
    /\ [][\A key \in {namespace_key("ns"), clear_namespace_key("ns")} :
            /\ (cache[key] # None /\ cache'[key] = None) =>
                  \E p \in Clearing : pc'[p] # pc[p] /\ Clear = Some(0)
            /\ (cache[key] = None /\ JoinReturned # {} /\ rounds' = rounds) =>
                  cache'[key] = None]_vars
    /\ [][(Clear # None /\ Clear' # None) => Val(Clear') \in {Val(Clear), Val(Clear) - 1}]_vars
    /\ [](RoundOver => NamespaceAbsent("ns"))

\* The last poll of a second round is between its two deletions.
C25_Witness ==
    /\ quorum >= 3 /\ Round = 2
    /\ \E p \in Parties : pc[p] = "del_clear"
    /\ Count = None /\ Clear = Some(0)

\* The poll of party p took the dissolution branch: its cache.get saw a count at
\* or below 0.
SawDisolved(p) ==
    /\ pc[p] \in {"decr", "del_count", "del_clear"}
    /\ PollBranch(current[p], quorum) = "disolved"

\* C26: in a round in which nobody severs no poll raises QuorumDisolved, however
\* the cache calls of the joins (cache.add of the count at 0, then cache.incr)
\* interleave with the polls of the parties that have joined: a party that is
\* about to poll finds the count at 1 or more, no poll is in the dissolution
\* branch, and no party has ended with QuorumDisolved.
C26_NoSpuriousDisolution ==
    kind = "attain" =>
        /\ Disolved = {}
        /\ \A p \in Parties :
              /\ ~SawDisolved(p)
              /\ AboutToPoll(p) => (Count # None /\ Val(Count) >= 1)

\* A party that joined is about to poll right after the cache.add of another
\* join, which left the count as it was.
C26_Witness ==
    /\ kind = "attain" /\ quorum >= 3
    /\ \E p, o \in Parties :
          /\ AboutToPoll(p)
          /\ phase[o] = "join" /\ pc[o] = "add_clear"
    /\ Count = Some(1)

(***************************************************************************)
(* A poll of a namespace whose counters are absent, as the invocations of  *)
(* the migrate command come to make it (MigrateSpec).                      *)
(***************************************************************************)
\* Invocation p is about to poll the namespace n, and neither counter of n is
\* in the cache.
PollsAbsent(p, n) ==
    /\ phase[p] \in {"pre_poll", "post_poll"} /\ NamespaceOf(phase[p]) = n
    /\ pc[p] = "get"
    /\ NamespaceAbsent(n)

\* C27: a poll of a namespace whose counters are absent returns False (the
\* caller stays in its polling loop), raises nothing and creates or changes no
\* counter.
C27_AbsentPollReturnsFalse ==
    [][\A p \in Procs : \A n \in Namespaces :
          PollsAbsent(p, n) =>
              /\ phase'[p] = phase[p] /\ pc'[p] = pc[p]
              /\ exc'[p] = "none"
              /\ (\A o \in Procs \ {p} : pc'[o] = pc[o]) => NamespaceAbsent(n)']_vars

(***************************************************************************)
(* Rounds that overlap: every party runs attain_quorum on the same         *)
(* namespace again as soon as its own call has returned, without waiting   *)
(* for the polls of the others to end.  Here rounds[p] is the number of    *)
(* the round party p is in.                                                *)
(***************************************************************************)
OverlapInit ==
    /\ quorum \in 2..MaxQuorum
    /\ plan = <<>>
    /\ call = NoCall
    /\ result = NoResult
    /\ rounds = [p \in Procs |-> 1]
    /\ cache = [k \in Keys |-> None]
    /\ phase = StartPhase("attain", quorum)
    /\ pc = StartPc("attain", quorum)
    /\ current = [p \in Procs |-> None]
    /\ joinRet = NoRet
    /\ pollRet = NoRet
    /\ exc = [p \in Procs |-> "none"]
    /\ applied = [p \in Procs |-> "no"]

\* Party p got True from join or from poll and calls attain_quorum again.
NextJoin(p) ==
    /\ phase[p] = "done"
    /\ rounds[p] < MaxRounds
    /\ rounds' = [rounds EXCEPT ![p] = @ + 1]
    /\ phase' = [phase EXCEPT ![p] = "join"]
    /\ pc' = [pc EXCEPT ![p] = "add_count"]
    /\ joinRet' = [joinRet EXCEPT ![p] = NoRet[p]]
    /\ pollRet' = [pollRet EXCEPT ![p] = NoRet[p]]
    /\ UNCHANGED <<plan, call, result, cache, quorum, current, exc, applied>>

OverlapNext == \E p \in Procs : QuorumStep(p) \/ NextJoin(p)

OverlapSpec == OverlapInit /\ [][OverlapNext]_vars

\* Every party is in round r and its join of that round has returned or raised.
AllJoinedRound(r) ==
    \A p \in Parties :
        /\ rounds[p] = r
        /\ joinRet[p]["ns"] # "none" \/ phase[p] = "raised"

\* C28: a join of the next round made while the last poll of the previous
\* round is between its decrement of the clear counter to 0 and its deletion
\* of the counters is counted in the new round: once the quorum joins of a
\* later round have returned, exactly one of them has returned True, and none
\* has raised.
C28_NoJoinLost ==
    \A r \in 2..MaxRounds :
        AllJoinedRound(r) =>
            /\ Cardinality(JoinedTrue) = 1
            /\ \A p \in Parties : exc[p] = "none"

(***************************************************************************)
(* get_pre_deploy_plan on plans of one direction whose order follows the   *)
(* dependencies, as MigrationExecutor.migration_plan orders them: forward, *)
(* a migration comes after the migrations of the plan it depends on;       *)
(* backward, before them.  A migration may depend on any number of the     *)
(* others; dependencies that are not in the plan are applied already and   *)
(* play no part.                                                           *)
(***************************************************************************)
\* The numbers of a set in ascending order.
Ascending(S, n) == SelectSeq([j \in 1..n |-> j], LAMBDA j : j \in S)

\* The i-th entry of an ordered plan of n: migration "app.i" holding body and
\* depending on the migrations numbered in deps.
OrderedEntry(body, deps, backward, i, n) ==
    <<[app_label |-> "app", name |-> i,
       stage |-> body.stage, operations |-> body.operations,
       dependencies |-> [k \in 1..Len(Ascending(deps, n)) |-> <<"app", Ascending(deps, n)[k]>>]],
      backward>>

\* What entry i of a plan of n may depend on, by the direction of the plan.
MayDependOn(backward, i, n) == IF backward THEN (i + 1)..n ELSE 1..(i - 1)

OrderedInit ==
    /\ NoQuorum
    /\ result = NoResult
    /\ \E n \in 0..MaxPlan : \E backward \in BOOLEAN :
          \E bodies \in [1..n -> PlanBodies] : \E deps \in [1..n -> SUBSET (1..n)] :
             /\ \A i \in 1..n : deps[i] \subseteq MayDependOn(backward, i, n)
             /\ call = [fn |-> "get_pre_deploy_plan",
                        plan |-> [i \in 1..n |-> OrderedEntry(bodies[i], deps[i], backward, i, n)],
                        conf |-> NoConf]

OrderedSpec == OrderedInit /\ [][PlanNext]_vars

\* The positions in the plan of the migrations entry i depends on directly.
DirectDeps(entries, i) ==
    {j \in 1..Len(entries) : Key(entries[j][1]) \in Range(entries[i][1].dependencies)}

\* The positions of the migrations entry i depends on, directly or through
\* other entries of the plan, following at most `hops` dependencies.
RECURSIVE DepsWithin(_, _, _)
DepsWithin(entries, i, hops) ==
    IF hops = 0 THEN {}
    ELSE DirectDeps(entries, i) \cup
         UNION {DepsWithin(entries, j, hops - 1) : j \in DirectDeps(entries, i)}

TransitiveDeps(entries, i) == DepsWithin(entries, i, Len(entries))

ForwardCalled == PlanCalled /\ \A i \in 1..Len(call.plan) : ~call.plan[i][2]

\* Some entry that is not left out as post-deploy depends, within `hops`
\* dependencies, on an entry that is.
Rejects(entries, hops) ==
    \E i \in 1..Len(entries) :
        /\ NotMustPostEntry(entries[i])
        /\ \E j \in DepsWithin(entries, i, hops) : MustPostEntry(entries[j])

\* C29: on a forward plan whose order follows the dependencies, when
\* get_pre_deploy_plan returns no migration of the result depends, directly or
\* through other entries of the plan, on an entry left out as post-deploy; and
\* AmbiguousPlan is raised on exactly the plans a check of the transitive
\* dependencies would reject, which are the plans the check of the direct
\* dependencies rejects.
C29_OneHopSuffices ==
    ForwardCalled =>
        /\ Returned =>
              \A k \in 1..Len(result.value) : \A i, j \in 1..Len(call.plan) :
                  (call.plan[i] = result.value[k] /\ j \in TransitiveDeps(call.plan, i))
                      => ~MustPostEntry(call.plan[j])
        /\ result.exc = "AmbiguousPlan" <=> Rejects(call.plan, Len(call.plan))
        /\ Rejects(call.plan, Len(call.plan)) <=> Rejects(call.plan, 1)

\* The third migration reaches the post-deploy first one only through the
\* second, which is where the direct check strikes.
C29_Witness ==
    /\ ForwardCalled /\ Len(call.plan) = 3
    /\ MustPostEntry(call.plan[1])
    /\ MustPreEntry(call.plan[2]) /\ DirectDeps(call.plan, 2) = {1}
    /\ MustPreEntry(call.plan[3]) /\ DirectDeps(call.plan, 3) = {2}
    /\ result.exc = "AmbiguousPlan"
    /\ result.migration = Key(call.plan[2][1])

BackwardCalled ==
    PlanCalled /\ Len(call.plan) > 0 /\ \A i \in 1..Len(call.plan) : call.plan[i][2]

\* The reversal of entry j is not left out as post-deploy while the reversal of
\* an entry ahead of it, whose migration depends on the migration of j, is.
RevertedBeforeDependent(entries, j) ==
    /\ NotMustPostEntry(entries[j])
    /\ \E i \in 1..(j - 1) :
          /\ MustPostEntry(entries[i])
          /\ j \in DirectDeps(entries, i)

\* C30: on a backward plan that reverts dependents before their dependencies,
\* when get_pre_deploy_plan returns, the result holds the reversal of no
\* migration A such that the reversal of a migration B that depends on A and
\* comes before A in the plan was left out as post-deploy; on such a plan
\* AmbiguousPlan is raised.
C30_BackwardDependencySafe ==
    BackwardCalled =>
        /\ Returned =>
              \A k \in 1..Len(result.value) : \A j \in 1..Len(call.plan) :
                  call.plan[j] = result.value[k] => ~RevertedBeforeDependent(call.plan, j)
        /\ (\E j \in 1..Len(call.plan) : RevertedBeforeDependent(call.plan, j))
              => result.exc = "AmbiguousPlan"

====
